---------------------------- MODULE Spec2Model ----------------------------
(*************************************************************************)
(* Model of the test-case generator: the command-line shell              *)
(* (script.py), the browser shell (streamlit_app.py main), the core      *)
(* coroutine generate_test_cases and the renderer format_test_cases.     *)
(*                                                                       *)
(* A Python str is a sequence of one-character strings.  A response      *)
(* text is a sequence of lexical tokens; json.loads is a recursive-      *)
(* descent parser over it, and the renderer works on the parsed value.   *)
(*************************************************************************)
EXTENDS Integers, Sequences, FiniteSets, TLC

(* ------------------------------ bounds ------------------------------ *)

\* Browser script runs (Streamlit re-runs main on every interaction).
MaxClicks == 2
\* Longest test_cases list among the generated multi-element responses.
MaxCases == 2

(* --------------------------- Python values --------------------------- *)

\* os.getenv returns None when the variable is not set.
None == [t |-> "null"]

JBool(b) == [t |-> "bool", b |-> b]
JNum(n) == [t |-> "num", n |-> n]
JStr(s) == [t |-> "str", s |-> s]
JList(xs) == [t |-> "list", items |-> xs]
\* A dict keeps its keys (Python strs) in insertion order.
JObj(ks, vs) == [t |-> "obj", keys |-> ks, vals |-> vs]

EmptyDict == JObj(<<>>, <<>>)

\* d[k] = v on a dict: a repeated key keeps its place and takes the new value.
DictSet(d, k, v) ==
    IF \E i \in 1..Len(d.keys) : d.keys[i] = k
    THEN LET i == CHOOSE j \in 1..Len(d.keys) : d.keys[j] = k
         IN  JObj(d.keys, [d.vals EXCEPT ![i] = v])
    ELSE JObj(Append(d.keys, k), Append(d.vals, v))

HasKey(d, k) == \E i \in 1..Len(d.keys) : d.keys[i] = k

\* dict.get(k, default)
DictGet(d, k, default) ==
    IF HasKey(d, k)
    THEN d.vals[CHOOSE i \in 1..Len(d.keys) : d.keys[i] = k]
    ELSE default

\* Python truth value: `not x` is ~Truthy(x).
Truthy(v) ==
    CASE v.t = "null" -> FALSE
      [] v.t = "bool" -> v.b
      [] v.t = "num"  -> v.n # 0
      [] v.t = "str"  -> v.s # <<>>
      [] v.t = "list" -> v.items # <<>>
      [] v.t = "obj"  -> v.keys # <<>>

\* The type name Python prints in its AttributeError / TypeError messages.
TypeName(v) ==
    CASE v.t = "null" -> "NoneType"
      [] v.t = "bool" -> "bool"
      [] v.t = "num"  -> "int"
      [] v.t = "str"  -> "str"
      [] v.t = "list" -> "list"
      [] v.t = "obj"  -> "dict"

Digits == <<"0", "1", "2", "3", "4", "5", "6", "7", "8", "9">>

DigitOf(n) == Digits[n + 1]

DigitVal(c) == (CHOOSE i \in 1..10 : Digits[i] = c) - 1

RECURSIVE IntStr(_)
\* str(n) of a non-negative int.
IntStr(n) == IF n < 10 THEN <<DigitOf(n)>> ELSE IntStr(n \div 10) \o <<DigitOf(n % 10)>>

RECURSIVE IntVal(_)
\* int(s) of a digit string.
IntVal(s) ==
    IF Len(s) = 1 THEN DigitVal(s[1])
    ELSE 10 * IntVal(SubSeq(s, 1, Len(s) - 1)) + DigitVal(s[Len(s)])

RECURSIVE PyRepr(_)
RECURSIVE ReprItems(_)
RECURSIVE ReprPairs(_, _)
\* repr(v): what an f-string shows for a value nested in a list or dict.
PyRepr(v) ==
    CASE v.t = "null" -> <<"N", "o", "n", "e">>
      [] v.t = "bool" -> IF v.b THEN <<"T", "r", "u", "e">> ELSE <<"F", "a", "l", "s", "e">>
      [] v.t = "num"  -> IntStr(v.n)
      [] v.t = "str"  -> <<"'">> \o v.s \o <<"'">>
      [] v.t = "list" -> <<"[">> \o ReprItems(v.items) \o <<"]">>
      [] v.t = "obj"  -> <<"{">> \o ReprPairs(v.keys, v.vals) \o <<"}">>

ReprItems(xs) ==
    IF xs = <<>> THEN <<>>
    ELSE IF Len(xs) = 1 THEN PyRepr(xs[1])
    ELSE PyRepr(xs[1]) \o <<",", " ">> \o ReprItems(Tail(xs))

ReprPairs(ks, vs) ==
    IF ks = <<>> THEN <<>>
    ELSE LET one == <<"'">> \o ks[1] \o <<"'", ":", " ">> \o PyRepr(vs[1])
         IN  IF Len(ks) = 1 THEN one
             ELSE one \o <<",", " ">> \o ReprPairs(Tail(ks), Tail(vs))

\* str(v), the conversion an f-string placeholder applies.
PyStr(v) == IF v.t = "str" THEN v.s ELSE PyRepr(v)

(* ------------------------- response texts --------------------------- *)

\* A token of a response text: punctuation and the literals null, true, false
\* carry no payload; a string literal, a number and a bare word carry theirs.
Tok(k, s) == [k |-> k, s |-> s]

P(k) == Tok(k, <<>>)

RECURSIVE Dump(_)
RECURSIVE DumpItems(_)
RECURSIVE DumpPairs(_, _)
\* The JSON text of a value, as the remote model writes it.
Dump(v) ==
    CASE v.t = "null" -> <<P("null")>>
      [] v.t = "bool" -> IF v.b THEN <<P("true")>> ELSE <<P("false")>>
      [] v.t = "num"  -> <<Tok("num", IntStr(v.n))>>
      [] v.t = "str"  -> <<Tok("str", v.s)>>
      [] v.t = "list" -> <<P("[")>> \o DumpItems(v.items) \o <<P("]")>>
      [] v.t = "obj"  -> <<P("{")>> \o DumpPairs(v.keys, v.vals) \o <<P("}")>>

DumpItems(xs) ==
    IF xs = <<>> THEN <<>>
    ELSE IF Len(xs) = 1 THEN Dump(xs[1])
    ELSE Dump(xs[1]) \o <<P(",")>> \o DumpItems(Tail(xs))

DumpPairs(ks, vs) ==
    IF ks = <<>> THEN <<>>
    ELSE LET one == <<Tok("str", ks[1]), P(":")>> \o Dump(vs[1])
         IN  IF Len(ks) = 1 THEN one
             ELSE one \o <<P(",")>> \o DumpPairs(Tail(ks), Tail(vs))

(* ----------------------------- json.loads ---------------------------- *)

\* A parse step either yields a value and the index after it, or the
\* JSONDecodeError it raises (message and position).
Parsed(v, i) == [ok |-> TRUE, v |-> v, i |-> i]

DecodeError(msg, i) == [ok |-> FALSE, msg |-> msg, i |-> i]

KindAt(toks, i) == IF i <= Len(toks) THEN toks[i].k ELSE "eof"

RECURSIVE ParseValue(_, _)
RECURSIVE ParseItems(_, _, _)
RECURSIVE ParsePairs(_, _, _)
\* The decoder's scan_once: one JSON value starting at token i.  A "word"
\* token is text that begins no value; the literals NaN and Infinity, which
\* the decoder accepts, are not among the words of the response texts below.
ParseValue(toks, i) ==
    LET k == KindAt(toks, i)
    IN  CASE k = "str"   -> Parsed(JStr(toks[i].s), i + 1)
          [] k = "num"   -> Parsed(JNum(IntVal(toks[i].s)), i + 1)
          [] k = "null"  -> Parsed(None, i + 1)
          [] k = "true"  -> Parsed(JBool(TRUE), i + 1)
          [] k = "false" -> Parsed(JBool(FALSE), i + 1)
          [] k = "["     -> IF KindAt(toks, i + 1) = "]"
                            THEN Parsed(JList(<<>>), i + 2)
                            ELSE ParseItems(toks, i + 1, <<>>)
          [] k = "{"     -> IF KindAt(toks, i + 1) = "}"
                            THEN Parsed(EmptyDict, i + 2)
                            ELSE ParsePairs(toks, i + 1, EmptyDict)
          [] OTHER       -> DecodeError("Expecting value", i)

\* JSONArray: the elements after "[", acc holding those read so far.
ParseItems(toks, i, acc) ==
    LET r == ParseValue(toks, i)
    IN  IF ~r.ok THEN r
        ELSE LET k == KindAt(toks, r.i)
             IN  CASE k = "]" -> Parsed(JList(Append(acc, r.v)), r.i + 1)
                   [] k = "," -> ParseItems(toks, r.i + 1, Append(acc, r.v))
                   [] OTHER   -> DecodeError("Expecting ',' delimiter", r.i)

\* JSONObject: the members after "{", acc holding those read so far.
ParsePairs(toks, i, acc) ==
    IF KindAt(toks, i) # "str"
    THEN DecodeError("Expecting property name enclosed in double quotes", i)
    ELSE IF KindAt(toks, i + 1) # ":"
    THEN DecodeError("Expecting ':' delimiter", i + 1)
    ELSE LET r == ParseValue(toks, i + 2)
         IN  IF ~r.ok THEN r
             ELSE LET k == KindAt(toks, r.i)
                      d == DictSet(acc, toks[i].s, r.v)
                  IN  CASE k = "}" -> Parsed(d, r.i + 1)
                        [] k = "," -> ParsePairs(toks, r.i + 1, d)
                        [] OTHER   -> DecodeError("Expecting ',' delimiter", r.i)

\* json.loads(text): one value, then the end of the text.
JsonLoads(toks) ==
    LET r == ParseValue(toks, 1)
    IN  IF ~r.ok THEN r
        ELSE IF r.i <= Len(toks) THEN DecodeError("Extra data", r.i)
        ELSE r

(* ------------------------ exceptions and output ---------------------- *)

\* A Python exception: its class, its message, and the position (JSONDecodeError)
\* or the type name (AttributeError, TypeError) the message is formatted with.
Exc(type, msg, n, arg) == [type |-> type, msg |-> msg, n |-> n, arg |-> arg]

NoExc == Exc("none", "", 0, "")

\* The classes an exception is an instance of (its MRO up to Exception).
Bases(type) ==
    CASE type = "JSONDecodeError"    -> {"JSONDecodeError", "ValueError", "Exception"}
      [] type = "UnicodeEncodeError" -> {"UnicodeEncodeError", "ValueError", "Exception"}
      [] type = "ValueError"         -> {"ValueError", "Exception"}
      [] OTHER                       -> {type, "Exception"}

\* isinstance(e, cls), the test an `except cls` clause makes.
IsInstance(e, cls) == e.type # "none" /\ cls \in Bases(e.type)

\* One thing shown to the user: a Streamlit element (k is the st.* call), a line
\* on stdout ("print"), an uncaught traceback on stderr, or a log record.
\* label is the literal part of the f-string, s and n its interpolated parts,
\* text a response text shown verbatim, e the exception whose str(e) is shown.
Out(k, label, n, s, text, e) ==
    [k |-> k, label |-> label, n |-> n, s |-> s, text |-> text, e |-> e]

StError(label, e) == Out("error", label, 0, <<>>, <<>>, e)

StWarning(label) == Out("warning", label, 0, <<>>, <<>>, NoExc)

StMarkdown(label, n, s) == Out("markdown", label, n, s, <<>>, NoExc)

StCode(text) == Out("code", "json", 0, <<>>, text, NoExc)

\* The result of a block that may raise: what it emitted, and the exception
\* that ended it (NoExc when it ran to its end).
Ran(out, exc) == [out |-> out, exc |-> exc]

(* -------------------------- format_test_cases ------------------------ *)

K_test_cases == <<"t", "e", "s", "t", "_", "c", "a", "s", "e", "s">>

K_title == <<"t", "i", "t", "l", "e">>

K_preconditions == <<"p", "r", "e", "c", "o", "n", "d", "i", "t", "i", "o", "n", "s">>

K_steps == <<"s", "t", "e", "p", "s">>

K_expected_result ==
    <<"e", "x", "p", "e", "c", "t", "e", "d", "_", "r", "e", "s", "u", "l", "t">>

Untitled == JStr(<<"U", "n", "t", "i", "t", "l", "e", "d">>)

NA == JStr(<<"N", "/", "A">>)

\* x.get(...) on a value that is no dict raises AttributeError.
NoGet(v) == Exc("AttributeError", "object has no attribute 'get'", 0, TypeName(v))

\* Whether len(v) and iteration over v are defined.
Sized(v) == v.t \in {"list", "str", "obj"}

\* len(v)
PyLen(v) ==
    CASE v.t = "list" -> Len(v.items)
      [] v.t = "str"  -> Len(v.s)
      [] v.t = "obj"  -> Len(v.keys)

\* The elements a for loop over v visits: a list's items, a str's characters,
\* a dict's keys.
PyIter(v) ==
    CASE v.t = "list" -> v.items
      [] v.t = "str"  -> [i \in 1..Len(v.s) |-> JStr(<<v.s[i]>>)]
      [] v.t = "obj"  -> [i \in 1..Len(v.keys) |-> JStr(v.keys[i])]

\* Lines 95-99: the steps of one test case.
RenderSteps(steps) ==
    IF ~Truthy(steps) THEN Ran(<<>>, NoExc)
    ELSE IF ~Sized(steps)
    THEN Ran(<<StMarkdown("**Steps:**", 0, <<>>)>>,
             Exc("TypeError", "object is not iterable", 0, TypeName(steps)))
    ELSE Ran(<<StMarkdown("**Steps:**", 0, <<>>)>>
               \o [j \in 1..PyLen(steps) |-> StMarkdown("step", j, PyStr(PyIter(steps)[j]))],
             NoExc)

\* Lines 91-101: the body of the loop for the i-th element.
RenderCase(i, test_case) ==
    IF test_case.t # "obj" THEN Ran(<<>>, NoGet(test_case))
    ELSE LET head == << Out("expander", "Test Case", i,
                            PyStr(DictGet(test_case, K_title, Untitled)), <<>>, NoExc),
                        StMarkdown("**Title:**", 0, PyStr(DictGet(test_case, K_title, NA))),
                        StMarkdown("**Preconditions:**", 0,
                                   PyStr(DictGet(test_case, K_preconditions, NA))) >>
             st == RenderSteps(DictGet(test_case, K_steps, JList(<<>>)))
         IN  IF st.exc # NoExc THEN Ran(head \o st.out, st.exc)
             ELSE Ran(head \o st.out
                        \o <<StMarkdown("**Expected Result:**", 0,
                                        PyStr(DictGet(test_case, K_expected_result, NA)))>>,
                      NoExc)

RECURSIVE RenderCases(_, _)
\* Lines 90-101: the loop over enumerate(test_cases, 1), from element i on.
RenderCases(items, i) ==
    IF i > Len(items) THEN Ran(<<>>, NoExc)
    ELSE LET one == RenderCase(i, items[i])
         IN  IF one.exc # NoExc THEN one
             ELSE LET rest == RenderCases(items, i + 1)
                  IN  Ran(one.out \o rest.out, rest.exc)

\* Lines 80-101: the try block.
FormatTry(json_content) ==
    LET r == JsonLoads(json_content)
    IN  IF ~r.ok THEN Ran(<<>>, Exc("JSONDecodeError", r.msg, r.i, ""))
        ELSE IF r.v.t # "obj" THEN Ran(<<>>, NoGet(r.v))
        ELSE LET test_cases == DictGet(r.v, K_test_cases, JList(<<>>))
             IN  IF ~Truthy(test_cases)
                 THEN Ran(<<StWarning("No test cases found in the response.")>>, NoExc)
                 ELSE IF ~Sized(test_cases)
                 THEN Ran(<<>>, Exc("TypeError", "object of type has no len()", 0,
                                    TypeName(test_cases)))
                 ELSE LET body == RenderCases(PyIter(test_cases), 1)
                      IN  Ran(<<Out("success", "Generated test cases:", PyLen(test_cases),
                                    <<>>, <<>>, NoExc)>> \o body.out,
                              body.exc)

\* The handler without its raw view: the error alone.
OnJSONDecodeError_NoRaw(json_content, e) ==
    <<StError("Failed to parse JSON response", e)>>

\* Lines 103-106: except json.JSONDecodeError.
OnJSONDecodeError(json_content, e) ==
    << StError("Failed to parse JSON response", e),
       Out("text", "Raw response:", 0, <<>>, <<>>, NoExc),
       StCode(json_content) >>

\* Lines 107-108: except Exception.
OnFormatException(e) == <<StError("Error formatting test cases", e)>>

\* format_test_cases(json_content): everything it puts on the page.
format_test_cases(json_content) ==
    LET t == FormatTry(json_content)
    IN  IF IsInstance(t.exc, "JSONDecodeError")
        THEN t.out \o OnJSONDecodeError(json_content, t.exc)
        ELSE IF IsInstance(t.exc, "Exception")
        THEN t.out \o OnFormatException(t.exc)
        ELSE t.out

(* ------------------------------ inputs ------------------------------- *)

\* A field the remote model left out of an object.
Absent == [t |-> "absent"]

Put(d, k, v) == IF v.t = "absent" THEN d ELSE DictSet(d, k, v)

\* One element of test_cases with the given (possibly absent) fields.
MkCase(ti, pr, st, ex) ==
    Put(Put(Put(Put(EmptyDict, K_title, ti), K_preconditions, pr), K_steps, st),
        K_expected_result, ex)

Ch(c) == JStr(<<c>>)

TitleOpts == {Absent, Ch("L")}

PreOpts == {Absent, Ch("P")}

ExpOpts == {Absent, Ch("E")}

StepsOpts ==
    { Absent, JList(<<>>), JList(<<Ch("a")>>), JList(<<Ch("a"), Ch("b"), Ch("c")>>),
      JList(<<Ch("a"), JNum(12)>>), JNum(5), JStr(<<"a", "b">>), None }

\* Test-case objects: every combination of present and absent fields, with
\* steps of several types.
Cases ==
    { MkCase(ti, pr, st, ex) : ti \in TitleOpts, pr \in PreOpts, st \in StepsOpts, ex \in ExpOpts }

FullCase == MkCase(Ch("L"), Ch("P"), JList(<<Ch("a"), Ch("b"), Ch("c")>>), Ch("E"))

\* Elements that are not objects.
OddElems == {JNum(1), Ch("x"), None, JList(<<>>)}

\* Elements of the longer lists.
FewElems == {FullCase, EmptyDict, JNum(1)}

CaseLists ==
    { JList(<<c>>) : c \in Cases \cup OddElems }
      \cup UNION { { JList(xs) : xs \in [1..n -> FewElems] } : n \in 2..MaxCases }

\* What the remote model may put under "test_cases".
TestCasesOpts ==
    CaseLists \cup { JList(<<>>), None, JNum(0), JNum(5), JStr(<<>>), JStr(<<"a", "b">>),
                     EmptyDict, JObj(<<<<"a">>>>, <<JNum(1)>>), JBool(TRUE), JBool(FALSE) }

\* The JSON values the remote model may answer with: batches, objects without
\* the key, and values that are no object.
Values ==
    { JObj(<<K_test_cases>>, <<x>>) : x \in TestCasesOpts }
      \cup { EmptyDict, JObj(<<<<"a">>>>, <<JList(<<FullCase>>)>>) }
      \cup { JList(<<>>), JList(<<FullCase>>), JNum(5), Ch("x"), None, JBool(TRUE) }

Word(c) == Tok("word", <<c>>)

\* Texts that are not JSON: the text of a value cut short, wrapped in a
\* Markdown fence or followed by prose, plain prose, and the empty text.
BrokenTexts ==
    { SubSeq(Dump(v), 1, Len(Dump(v)) - 1) : v \in Values }
      \cup { <<Word("#")>> \o Dump(v) \o <<Word("#")>> : v \in Values }
      \cup { Dump(v) \o <<Word("!")>> : v \in Values }
      \cup { <<Word("S"), Word("!")>>, <<>> }

ValidTexts == { Dump(v) : v \in Values }

\* Every response text the remote call may return.
Texts == ValidTexts \cup BrokenTexts

\* What llm.ainvoke may raise: the provider's errors, and errors that are
\* ValueErrors (a bad argument, an unencodable character in the request).
RemoteErrors ==
    { Exc("AuthenticationError", "Incorrect API key provided", 401, ""),
      Exc("RateLimitError", "Rate limit reached", 429, ""),
      Exc("APIConnectionError", "Connection error.", 0, ""),
      Exc("APITimeoutError", "Request timed out.", 0, ""),
      Exc("ValueError", "Received unsupported message type", 0, ""),
      Exc("UnicodeEncodeError", "surrogates not allowed", 0, "utf-8") }

\* OPENAI_API_KEY in the environment: unset, set but empty, set.
KeyOpts == {None, JStr(<<>>), JStr(<<"s", "k">>)}

\* Descriptions the user may type.
Descs == { <<>>, <<" ">>, <<" ", "\n">>, <<"a">>, <<" ", "a", "b", " ">> }

(* ------------------------------- state ------------------------------- *)

VARIABLES
    shell,       \* "cli": script.py; "web": streamlit_app.py main;
                 \* "core": a direct call of generate_test_cases
    api_key,     \* os.getenv('OPENAI_API_KEY')
    pc,          \* "idle", "awaiting" (suspended in llm.ainvoke), "exited"
    runs,        \* invocations started: script runs of the page, or the one
                 \* run of the command-line shell or of the coroutine
    user_input,  \* the description of this invocation
    clicked,     \* whether this script run was caused by the submit button
    messages,    \* the ChatRequest of this invocation, <<>> if none was built
    calls,       \* llm.ainvoke attempts of this invocation
    total,       \* llm.ainvoke attempts since the process started
    remote,      \* "none", "pending", "returned", "raised"
    response,    \* response.content, when remote = "returned"
    err,         \* what llm.ainvoke raised, when remote = "raised"
    uncaught,    \* the exception leaving the invocation, NoExc if none
    out,         \* what this invocation has shown (page, stdout, stderr, log)
    open_loops   \* event loops created by asyncio.new_event_loop, not closed

vars ==
    << shell, api_key, pc, runs, user_input, clicked, messages, calls, total,
       remote, response, err, uncaught, out, open_loops >>

Whitespace == {" ", "\n", "\t"}

RECURSIVE LStrip(_)
LStrip(s) == IF s # <<>> /\ s[1] \in Whitespace THEN LStrip(Tail(s)) ELSE s

RECURSIVE RStrip(_)
RStrip(s) ==
    IF s # <<>> /\ s[Len(s)] \in Whitespace THEN RStrip(SubSeq(s, 1, Len(s) - 1)) ELSE s

\* str.strip()
Strip(s) == RStrip(LStrip(s))

\* The test written as "api_key is None": an empty value passes it.
CredentialMissing_NoneOnly(key) == key.t = "null"

\* `if not api_key`: the variable is unset or empty.
CredentialMissing(key) == ~Truthy(key)

ConfigError == Exc("ValueError", "OPENAI_API_KEY environment variable is not set", 0, "")

\* [system_prompt, HumanMessage(content=f'Please convert ...:\n\n{user_message}')]
BuildMessages(user_message) ==
    << [role |-> "system", template |-> "SystemPrompt", content |-> <<>>],
       [role |-> "human", template |-> "Please convert this test case into a task:\n\n",
        content |-> user_message] >>

\* generate_test_cases up to its await: the exception it raises, or the
\* request it sends.
GenerateStart(key, user_message) ==
    IF CredentialMissing(key)
    THEN [exc |-> ConfigError, messages |-> <<>>]
    ELSE [exc |-> NoExc, messages |-> BuildMessages(user_message)]

Init ==
    /\ shell \in {"cli", "web", "core"}
    /\ api_key \in KeyOpts
    /\ pc = "idle"
    /\ runs = 0
    /\ user_input = <<>>
    /\ clicked = FALSE
    /\ messages = <<>>
    /\ calls = 0
    /\ total = 0
    /\ remote = "none"
    /\ response = <<>>
    /\ err = NoExc
    /\ uncaught = NoExc
    /\ out = <<>>
    /\ open_loops = 0

\* llm.ainvoke(messages) is entered: one attempt, and the caller is suspended.
Invoke(msgs) ==
    /\ messages' = msgs
    /\ calls' = 1
    /\ total' = total + 1
    /\ remote' = "pending"
    /\ pc' = "awaiting"

\* The invocation ends before any request is built.
NoInvoke ==
    /\ messages' = <<>>
    /\ calls' = 0
    /\ total' = total
    /\ remote' = "none"

(* ------------------------- script.py: main --------------------------- *)

\* Lines 57-72: the credential check, the prompt for one line, the request.
\* A missing credential raises ValueError out of asyncio.run: the interpreter
\* prints the traceback and exits.
CliStart(desc) ==
    /\ shell = "cli" /\ pc = "idle" /\ runs = 0
    /\ runs' = runs + 1
    /\ clicked' = FALSE
    /\ response' = <<>>
    /\ err' = NoExc
    /\ IF CredentialMissing(api_key)
       THEN /\ NoInvoke
            /\ user_input' = <<>>
            /\ uncaught' = ConfigError
            /\ out' = <<Out("traceback", "ValueError", 0, <<>>, <<>>, ConfigError)>>
            /\ pc' = "exited"
       ELSE /\ user_input' = desc
            /\ Invoke(BuildMessages(desc))
            /\ uncaught' = NoExc
            /\ out' = <<>>
    /\ UNCHANGED <<shell, api_key, open_loops>>

\* Lines 73-74: print(content).
CliReturn(text) ==
    /\ shell = "cli" /\ pc = "awaiting"
    /\ remote' = "returned"
    /\ response' = text
    /\ out' = Append(out, Out("print", "", 0, <<>>, text, NoExc))
    /\ pc' = "exited"
    /\ UNCHANGED <<shell, api_key, runs, user_input, clicked, messages, calls, total,
                   err, uncaught, open_loops>>

\* Lines 75-76: except Exception: pass.
CliRaise(e) ==
    /\ shell = "cli" /\ pc = "awaiting"
    /\ remote' = "raised"
    /\ err' = e
    /\ pc' = "exited"
    /\ UNCHANGED <<shell, api_key, runs, user_input, clicked, messages, calls, total,
                   response, uncaught, out, open_loops>>

(* ------------------ streamlit_app.py: generate_test_cases ------------ *)

\* Lines 58-72, called directly: raises ValueError to the caller, or sends.
CoreCall(desc) ==
    /\ shell = "core" /\ pc = "idle" /\ runs = 0
    /\ runs' = runs + 1
    /\ clicked' = FALSE
    /\ user_input' = desc
    /\ response' = <<>>
    /\ err' = NoExc
    /\ out' = <<>>
    /\ LET g == GenerateStart(api_key, desc)
       IN  IF g.exc # NoExc
           THEN NoInvoke /\ uncaught' = g.exc /\ pc' = "exited"
           ELSE Invoke(g.messages) /\ uncaught' = NoExc
    /\ UNCHANGED <<shell, api_key, open_loops>>

\* Line 73: return response.content.
CoreReturn(text) ==
    /\ shell = "core" /\ pc = "awaiting"
    /\ remote' = "returned"
    /\ response' = text
    /\ pc' = "exited"
    /\ UNCHANGED <<shell, api_key, runs, user_input, clicked, messages, calls, total,
                   err, uncaught, out, open_loops>>

\* Lines 74-75: except Exception as e: raise e.
CoreRaise(e) ==
    /\ shell = "core" /\ pc = "awaiting"
    /\ remote' = "raised"
    /\ err' = e
    /\ uncaught' = e
    /\ pc' = "exited"
    /\ UNCHANGED <<shell, api_key, runs, user_input, clicked, messages, calls, total,
                   response, out, open_loops>>

(* ---------------------- streamlit_app.py: main ----------------------- *)

\* Line 124: the page's message when the credential is missing.
KeyNotSetMessage ==
    "OPENAI_API_KEY environment variable is not set. Please set it in your .env file."

\* Lines 155-159: the two except clauses of the click handler.
OnMainException(e) ==
    IF IsInstance(e, "ValueError")
    THEN <<StError("Configuration error", e)>>
    ELSE << StError("An error occurred", e),
            Out("log", "Error generating test cases", 0, <<>>, <<>>, e) >>

\* Lines 148-153: the page after a response.
ResultPage(text) ==
    <<Out("header", "Generated Test Cases", 0, <<>>, <<>>, NoExc)>>
      \o format_test_cases(text)
      \o <<Out("expander", "View Raw JSON", 0, <<>>, <<>>, NoExc), StCode(text)>>

\* One run of the script, lines 112-145: Streamlit runs main again on every
\* interaction, with the text area's content and whether the button was
\* pressed.  Without the credential the page stops before the form is shown.
WebRun(desc, click) ==
    /\ shell = "web" /\ pc = "idle" /\ runs < MaxClicks
    /\ runs' = runs + 1
    /\ response' = <<>>
    /\ err' = NoExc
    /\ uncaught' = NoExc
    /\ IF CredentialMissing(api_key)
       THEN /\ user_input' = <<>> /\ clicked' = FALSE
            /\ NoInvoke
            /\ out' = <<StError(KeyNotSetMessage, NoExc)>>
            /\ UNCHANGED <<pc, open_loops>>
       ELSE /\ user_input' = desc /\ clicked' = click
            /\ IF ~click
               THEN NoInvoke /\ out' = <<>> /\ UNCHANGED <<pc, open_loops>>
               ELSE IF Strip(desc) = <<>>
               THEN /\ NoInvoke
                    /\ out' = <<StWarning("Please enter a test case description.")>>
                    /\ UNCHANGED <<pc, open_loops>>
               ELSE /\ open_loops' = open_loops + 1
                    /\ LET g == GenerateStart(api_key, desc)
                       IN  IF g.exc # NoExc
                           THEN NoInvoke /\ out' = OnMainException(g.exc) /\ UNCHANGED pc
                           ELSE Invoke(g.messages) /\ out' = <<>>
    /\ UNCHANGED <<shell, api_key>>

\* Lines 145-153: the call returns; the loop is closed and the page rendered.
WebReturn(text) ==
    /\ shell = "web" /\ pc = "awaiting"
    /\ remote' = "returned"
    /\ response' = text
    /\ open_loops' = open_loops - 1
    /\ out' = out \o ResultPage(text)
    /\ pc' = "idle"
    /\ UNCHANGED <<shell, api_key, runs, user_input, clicked, messages, calls, total,
                   err, uncaught>>

\* The handler with a retry: a first failure sends the request again.
WebRaise_Retry(e) ==
    /\ shell = "web" /\ pc = "awaiting"
    /\ IF calls < 2
       THEN /\ calls' = calls + 1 /\ total' = total + 1
            /\ UNCHANGED <<remote, err, out, pc>>
       ELSE /\ remote' = "raised" /\ err' = e
            /\ out' = out \o OnMainException(e)
            /\ pc' = "idle"
            /\ UNCHANGED <<calls, total>>
    /\ UNCHANGED <<shell, api_key, runs, user_input, clicked, messages,
                   response, uncaught, open_loops>>

\* Lines 145, 155-159: the call raises; run_until_complete re-raises it past
\* loop.close() into the except clauses.
WebRaise(e) ==
    /\ shell = "web" /\ pc = "awaiting"
    /\ remote' = "raised"
    /\ err' = e
    /\ out' = out \o OnMainException(e)
    /\ pc' = "idle"
    /\ UNCHANGED <<shell, api_key, runs, user_input, clicked, messages, calls, total,
                   response, uncaught, open_loops>>

Next ==
    \/ \E d \in Descs : CliStart(d)
    \/ \E t \in Texts : CliReturn(t)
    \/ \E e \in RemoteErrors : CliRaise(e)
    \/ \E d \in Descs : CoreCall(d)
    \/ \E t \in Texts : CoreReturn(t)
    \/ \E e \in RemoteErrors : CoreRaise(e)
    \/ \E d \in Descs, c \in BOOLEAN : WebRun(d, c)
    \/ \E t \in Texts : WebReturn(t)
    \/ \E e \in RemoteErrors : WebRaise(e)

Spec == Init /\ [][Next]_vars

(* ------------------------------ claims ------------------------------- *)

\* The credential is absent or empty.
KeyAbsent == api_key.t = "null" \/ (api_key.t = "str" /\ api_key.s = <<>>)

\* An entry shell (not a direct call of the coroutine).
InShell == shell \in {"cli", "web"}

\* The invocation has run to its end.
Finished == pc = "exited" \/ (shell = "web" /\ pc = "idle" /\ runs > 0)

\* Positions of out holding an error shown to the user.
ErrorsShown == { i \in DOMAIN out : out[i].k \in {"error", "traceback"} }

\* The missing credential is what the user is told.
ConfigReported ==
    \E i \in ErrorsShown : out[i].e = ConfigError \/ out[i].label = KeyNotSetMessage

\* C1: whenever OPENAI_API_KEY is absent or empty, no request is built and no
\* llm.ainvoke is attempted, and an invocation that has run has failed with the
\* configuration error: the ValueError leaves script.py's main and
\* generate_test_cases, and the page shows the missing-key error.
C1_NoCallWithoutCredential ==
    KeyAbsent =>
        /\ total = 0 /\ calls = 0 /\ messages = <<>> /\ remote = "none"
        /\ runs > 0 =>
             /\ Finished
             /\ shell = "cli" => uncaught = ConfigError /\ ConfigReported
             /\ shell = "core" => uncaught = ConfigError
             /\ shell = "web" => ConfigReported

C1_Witness ==
    /\ api_key = JStr(<<>>) /\ shell = "web" /\ runs = 2
    /\ ConfigReported /\ total = 0

\* C2: in the command-line shell and in the browser shell, a description that
\* is empty or only whitespace is rejected before the core is called: no
\* ChatRequest is built from it and no remote call is issued for it.
C2_BlankRejected ==
    (InShell /\ runs > 0 /\ Strip(user_input) = <<>>) => messages = <<>> /\ calls = 0

\* C3: in both shells, no invocation in which the remote call failed finishes
\* without an error report to the user.
C3_FailureReported ==
    (InShell /\ Finished /\ remote = "raised") => ErrorsShown # {}

\* C4: in the browser shell an error is labelled a configuration error only
\* when the credential is missing, and a failure of the remote call is shown
\* as an execution error, whatever its exception type.
C4_LabelsDistinguishCause ==
    shell = "web" =>
        /\ \A i \in ErrorsShown : out[i].label = "Configuration error" => KeyAbsent
        /\ (pc = "idle" /\ remote = "raised") =>
               \E i \in ErrorsShown : out[i].label = "An error occurred" /\ out[i].e = err

\* The steps C5 is about: an invocation starting with the credential present
\* and, in the browser, a click with a non-blank description; and the step
\* that ends the wait for the remote call.
C5_Step ==
    /\ ( /\ runs' = runs + 1 /\ InShell /\ ~KeyAbsent
         /\ shell = "cli" \/ (clicked' /\ Strip(user_input') # <<>>) )
       => /\ calls' = 1 /\ total' = total + 1 /\ remote' = "pending"
          /\ messages' = BuildMessages(user_input')
          /\ response' = <<>> /\ err' = NoExc /\ out' = <<>>
    /\ (InShell /\ pc = "awaiting")
       => /\ calls' = calls /\ total' = total
          /\ pc' # "awaiting" /\ remote' \in {"returned", "raised"}

\* C5: with the credential present, every command-line run and every click
\* with a non-blank description issues exactly one remote call attempt; the
\* step that ends the wait, by a response or by a failure, issues no further
\* call; and what a click starts from (one call, its own request, an empty
\* page, no response) does not depend on the clicks before it.
C5_OneCallPerInvocation == [][C5_Step]_vars

C5_Witness ==
    /\ shell = "web" /\ runs = 2 /\ pc = "idle"
    /\ remote = "raised" /\ calls = 1 /\ total = 2

\* Positions of out holding an element of a rendered test case or the count.
CasesShown ==
    { i \in DOMAIN out :
        \/ out[i].k \in {"success", "markdown", "warning"}
        \/ out[i].k = "expander" /\ out[i].label = "Test Case" }

\* C6: for every response text that is not JSON (json.loads rejects it), the
\* page shows the malformed-response error carrying the parser's diagnostic
\* (its message and position), no test case and
\* no count, and the raw view after "Raw response:" holds the response text
\* unchanged, as does every other view of it.
C6_MalformedKeepsRaw ==
    (shell = "web" /\ remote = "returned" /\ response \in BrokenTexts) =>
        /\ \E i \in ErrorsShown :
              /\ out[i].label = "Failed to parse JSON response"
              /\ out[i].e.type = "JSONDecodeError"
              /\ out[i].e.msg = JsonLoads(response).msg
              /\ out[i].e.n = JsonLoads(response).i
        /\ CasesShown = {}
        /\ \E i \in DOMAIN out :
              /\ out[i].k = "text" /\ out[i].label = "Raw response:"
              /\ i + 1 \in DOMAIN out
              /\ out[i + 1].k = "code" /\ out[i + 1].text = response
        /\ \A i \in DOMAIN out : out[i].k = "code" => out[i].text = response

C6_Witness ==
    /\ shell = "web" /\ remote = "returned"
    /\ response = <<Word("#")>> \o Dump(JObj(<<K_test_cases>>, <<JList(<<FullCase>>)>>))
                    \o <<Word("#")>>
    /\ \E i \in ErrorsShown : out[i].e.msg = "Expecting value"

\* The browser shell has rendered a response that parsed as JSON.
RenderedJson == shell = "web" /\ remote = "returned" /\ JsonLoads(response).ok

\* The parsed response, and what it holds under "test_cases".
Data == JsonLoads(response).v

TestCases == DictGet(Data, K_test_cases, Absent)

\* C7: for every response that parses as JSON, object or not, whose value has
\* no "test_cases" key or an empty "test_cases" list, the page shows "No test
\* cases found", no count, no test case, and no error.
C7_NoCasesIsNotAnError ==
    ( /\ RenderedJson
      /\ \/ Data.t # "obj"
         \/ TestCases.t = "absent"
         \/ TestCases.t = "list" /\ TestCases.items = <<>> )
    => /\ \E i \in DOMAIN out :
             out[i].k = "warning" /\ out[i].label = "No test cases found in the response."
       /\ ErrorsShown = {}
       /\ \A i \in DOMAIN out :
             /\ out[i].k # "success"
             /\ ~(out[i].k = "expander" /\ out[i].label = "Test Case")

\* Positions of the expanders of rendered test cases, and of the one with number j.
CaseHeads == { i \in DOMAIN out : out[i].k = "expander" /\ out[i].label = "Test Case" }

HeadOf(j) == CHOOSE i \in CaseHeads : out[i].n = j

\* What the page shows for test case j: from its expander to the next one, or
\* to the raw view's expander.
Block(j) ==
    LET last == IF \E i \in CaseHeads : out[i].n = j + 1
                THEN HeadOf(j + 1) - 1
                ELSE (CHOOSE i \in DOMAIN out :
                         out[i].k = "expander" /\ out[i].label = "View Raw JSON") - 1
    IN  SubSeq(out, HeadOf(j), last)

IsStep(o) == o.k = "markdown" /\ o.label = "step"

\* Block b shows the field under label: its value, or the placeholder N/A.
ShowsField(b, label, case, key) ==
    \E i \in DOMAIN b :
        /\ b[i].k = "markdown" /\ b[i].label = label
        /\ b[i].s = PyStr(DictGet(case, key, NA))

\* Block b shows the steps: numbered 1..n in order when they are a list, and
\* some element standing for them when the field is absent.
ShowsSteps(b, case) ==
    LET steps == DictGet(case, K_steps, Absent)
    IN  /\ steps.t = "absent" => \E i \in DOMAIN b : b[i].label = "**Steps:**"
        /\ steps.t = "list" =>
              SelectSeq(b, IsStep)
                = [j \in 1..Len(steps.items) |-> StMarkdown("step", j, PyStr(steps.items[j]))]

\* C8: for every batch whose "test_cases" is a non-empty list of objects, the
\* page shows the elements in list order, each with title, preconditions, its
\* steps numbered 1..n in order and expected_result, each absent field among
\* the four shown as a placeholder; no error is shown; and the count announced
\* is the number of cases rendered.
C8_EveryCaseRendered ==
    ( /\ RenderedJson /\ Data.t = "obj"
      /\ TestCases.t = "list" /\ TestCases.items # <<>>
      /\ \A j \in DOMAIN TestCases.items : TestCases.items[j].t = "obj" )
    => LET items == TestCases.items
       IN  /\ ErrorsShown = {}
           /\ \E i \in DOMAIN out : out[i].k = "success" /\ out[i].n = Len(items)
           /\ Cardinality(CaseHeads) = Len(items)
           /\ \A j \in DOMAIN items : \E i \in CaseHeads : out[i].n = j
           /\ \A j, k \in DOMAIN items : j < k => HeadOf(j) < HeadOf(k)
           /\ \A j \in DOMAIN items :
                 /\ ShowsField(Block(j), "**Title:**", items[j], K_title)
                 /\ ShowsField(Block(j), "**Preconditions:**", items[j], K_preconditions)
                 /\ ShowsField(Block(j), "**Expected Result:**", items[j], K_expected_result)
                 /\ ShowsSteps(Block(j), items[j])

\* C9: for every response that parses as JSON and holds a non-empty value under
\* "test_cases", of whatever type and with elements and sub-fields of whatever
\* types, rendering ends without an error; in particular no count is announced
\* on a page that then shows an error.
C9_ToleratesAnyTypes ==
    ( /\ RenderedJson /\ Data.t = "obj"
      /\ TestCases.t # "absent" /\ Truthy(TestCases) )
    => ErrorsShown = {}

\* C10: the event loop created for a click is closed on every way out of the
\* handler: whenever the page is idle, no loop is left open.
C10_LoopsClosed == (shell = "web" /\ pc = "idle") => open_loops = 0

=============================================================================
